---- MODULE Spec2Model ----
(***************************************************************************)
(* The read-only SQL query validator of database-mcp                       *)
(* (mcp/sql_query_validation.go): normalizeSQL, removeStringLiterals,      *)
(* SQLValidator.Validate and its helpers, and the shared keywordPatterns   *)
(* cache that containsKeyword fills on first use.                          *)
(*                                                                         *)
(* A string is a sequence of one-character strings.                        *)
(***************************************************************************)
EXTENDS Integers, Sequences, FiniteSets, TLC

VARIABLES query, normalized, sqlWithoutLiterals, outcome, pc,
          scan, keywordPatterns, callers, crashed

vars == <<query, normalized, sqlWithoutLiterals, outcome, pc,
          scan, keywordPatterns, callers, crashed>>

(***************************************************************************)
(* Query validation constants.                                             *)
(***************************************************************************)
MaxQueryLength == 10000
MaxSubqueryCount == 10
MaxUnionCount == 5
MaxParenthesesDepth == 20
MaxHexEncodingCount == 3
MaxCharFunctionCount == 10

(***************************************************************************)
(* Characters.                                                             *)
(***************************************************************************)
LowerLetters == <<"a","b","c","d","e","f","g","h","i","j","k","l","m",
                  "n","o","p","q","r","s","t","u","v","w","x","y","z">>
UpperLetters == <<"A","B","C","D","E","F","G","H","I","J","K","L","M",
                  "N","O","P","Q","R","S","T","U","V","W","X","Y","Z">>
Digits == {"0","1","2","3","4","5","6","7","8","9"}

Range(f) == {f[x] : x \in DOMAIN f}

\* strings.ToUpper on one character
UpperOf == [c \in Range(LowerLetters) |->
               UpperLetters[CHOOSE k \in 1..26 : LowerLetters[k] = c]]
ToUpperChar(c) == IF c \in DOMAIN UpperOf THEN UpperOf[c] ELSE c

\* unicode.IsSpace, which strings.TrimSpace uses (the characters below 0x80)
IsSpace(c) == c \in {" ", "\t", "\n", "\r", "\f"}

\* \s of package regexp: [\t\n\f\r ]
IsReSpace(c) == c \in {" ", "\t", "\n", "\r", "\f"}

\* \w of package regexp, which decides \b: [0-9A-Za-z_]
WordChars == Digits \cup Range(LowerLetters) \cup Range(UpperLetters) \cup {"_"}
IsWordChar(c) == c \in WordChars

\* [0-9A-F]
HexDigits == Digits \cup {"A","B","C","D","E","F"}
IsHexDigit(c) == c \in HexDigits

\* char < 32 && char != '\n' && char != '\r' && char != '\t'
IsSuspiciousControl(c) == c \in {"\f"}

\* [(),;]
IsPunct(c) == c \in {"(", ")", ",", ";"}

(***************************************************************************)
(* Strings.                                                                *)
(***************************************************************************)
\* The least j in from..Len(s) with P(s, j), and Len(s)+1 when there is none.
NextIndex(s, from, P(_, _)) ==
    CHOOSE j \in from..(Len(s) + 1) :
        /\ (j = Len(s) + 1 \/ P(s, j))
        /\ \A k \in from..(j - 1) : ~P(s, k)

\* w occurs in s at position i
OccursAt(s, i, w) ==
    /\ i >= 1
    /\ i + Len(w) - 1 <= Len(s)
    /\ \A k \in 1..Len(w) : s[i + k - 1] = w[k]

HasPrefix(s, p) == OccursAt(s, 1, p)

Contains(s, w) == \E i \in 1..Len(s) : OccursAt(s, i, w)

\* strings.Count: the non-overlapping occurrences of w, left to right
RECURSIVE CountFrom(_, _, _, _)
CountFrom(s, w, from, n) ==
    LET i == NextIndex(s, from, LAMBDA t, j : OccursAt(t, j, w))
    IN  IF i > Len(s) THEN n ELSE CountFrom(s, w, i + Len(w), n + 1)

Count(s, w) == CountFrom(s, w, 1, 0)

ToUpper(s) == [i \in 1..Len(s) |-> ToUpperChar(s[i])]

TrimSpace(s) ==
    LET first == NextIndex(s, 1, LAMBDA t, j : ~IsSpace(t[j]))
    IN  IF first > Len(s) THEN <<>>
        ELSE LET last == CHOOSE j \in first..Len(s) :
                             /\ ~IsSpace(s[j])
                             /\ \A k \in (j + 1)..Len(s) : IsSpace(s[k])
             IN  SubSeq(s, first, last)

(***************************************************************************)
(* Regular expressions.  A pattern is given by MatchEnd(s, i): the last    *)
(* position of its match that starts at i, or 0 when it has no match       *)
(* there (no pattern here matches the empty string).                       *)
(***************************************************************************)
\* Regexp.ReplaceAllString: the leftmost non-overlapping matches, each
\* replaced by Repl(s, start, end).
RECURSIVE ReplaceFrom(_, _, _, _, _)
ReplaceFrom(MatchEnd(_, _), Repl(_, _, _), s, from, acc) ==
    LET start == NextIndex(s, from, LAMBDA t, j : MatchEnd(t, j) > 0)
    IN  IF start > Len(s) THEN acc \o SubSeq(s, from, Len(s))
        ELSE LET end == MatchEnd(s, start)
                 out == acc \o SubSeq(s, from, start - 1) \o Repl(s, start, end)
             IN  IF Len(out) >= 0
                 THEN ReplaceFrom(MatchEnd, Repl, s, end + 1, out)
                 ELSE out

ReplaceAllString(MatchEnd(_, _), Repl(_, _, _), s) ==
    ReplaceFrom(MatchEnd, Repl, s, 1, <<>>)

\* Regexp.FindAllString(s, -1): the number of matches
RECURSIVE CountMatchesFrom(_, _, _, _)
CountMatchesFrom(MatchEnd(_, _), s, from, n) ==
    LET start == NextIndex(s, from, LAMBDA t, j : MatchEnd(t, j) > 0)
    IN  IF start > Len(s) THEN n
        ELSE CountMatchesFrom(MatchEnd, s, MatchEnd(s, start) + 1, n + 1)

\* Regexp.MatchString
MatchString(MatchEnd(_, _), s) == \E i \in 1..Len(s) : MatchEnd(s, i) > 0

\* --[^\n]*
reLineComments(s, i) ==
    IF OccursAt(s, i, <<"-", "-">>)
    THEN NextIndex(s, i + 2, LAMBDA t, j : t[j] = "\n") - 1
    ELSE 0

\* /\*.*?\*/   ("." does not match a newline)
reBlockComments(s, i) ==
    IF OccursAt(s, i, <<"/", "*">>)
    THEN LET c == NextIndex(s, i + 2,
                      LAMBDA t, j : t[j] = "\n" \/ OccursAt(t, j, <<"*", "/">>))
         IN  IF c <= Len(s) /\ s[c] = "*" THEN c + 1 ELSE 0
    ELSE 0

\* \s+
reMultipleSpaces(s, i) ==
    IF IsReSpace(s[i])
    THEN NextIndex(s, i + 1, LAMBDA t, j : ~IsReSpace(t[j])) - 1
    ELSE 0

\* \s*([(),;])\s*
reParensAndCommas(s, i) ==
    LET p == NextIndex(s, i, LAMBDA t, j : ~IsReSpace(t[j]))
    IN  IF p <= Len(s) /\ IsPunct(s[p])
        THEN NextIndex(s, p + 1, LAMBDA t, j : ~IsReSpace(t[j])) - 1
        ELSE 0

\* the "$1" of reParensAndCommas: the punctuation character of the match
Group1(s, start, end) ==
    <<s[NextIndex(s, start, LAMBDA t, j : ~IsReSpace(t[j]))]>>

\* a delimited run open[^close]*close
Delimited(s, i, open, close) ==
    IF s[i] = open
    THEN LET c == NextIndex(s, i + 1, LAMBDA t, j : t[j] = close)
         IN  IF c <= Len(s) THEN c ELSE 0
    ELSE 0

\* '[^']*'
reSingleQuotes(s, i) == Delimited(s, i, "'", "'")
\* "[^"]*"
reDoubleQuotes(s, i) == Delimited(s, i, "\"", "\"")
\* \[[^\]]*\]
reSquareBrackets(s, i) == Delimited(s, i, "[", "]")

Space(s, start, end) == <<" ">>

\* Normalizes SQL by removing extra spaces and comments.
normalizeSQL(sql) ==
    LET s1 == ReplaceAllString(reLineComments, Space, sql)
        s2 == ReplaceAllString(reBlockComments, Space, s1)
        s3 == ReplaceAllString(reMultipleSpaces, Space, s2)
        s4 == ReplaceAllString(reParensAndCommas, Group1, s3)
    IN  TrimSpace(ToUpper(s4))

EmptySingle(s, start, end) == <<"'", "'">>
EmptyDouble(s, start, end) == <<"\"", "\"">>
EmptyBrackets(s, start, end) == <<"[", "]">>

\* Remove literal strings for command parsing.
removeStringLiterals(sql) ==
    LET s1 == ReplaceAllString(reSingleQuotes, EmptySingle, sql)
        s2 == ReplaceAllString(reDoubleQuotes, EmptyDouble, s1)
    IN  ReplaceAllString(reSquareBrackets, EmptyBrackets, s2)

(***************************************************************************)
(* The checks of SQLValidator.Validate.                                    *)
(***************************************************************************)
\* position p of s holds a word character (\b compares both sides of a gap)
WordAt(s, p) == p >= 1 /\ p <= Len(s) /\ IsWordChar(s[p])

\* \b between positions p and p+1
WordBoundary(s, p) == WordAt(s, p) # WordAt(s, p + 1)

\* regexp.MustCompile(`\b` + keyword + `\b`).MatchString(sql): what
\* containsKeyword returns, whether the pattern was cached or just compiled
containsKeyword(sql, keyword) ==
    \E i \in 1..Len(sql) :
        /\ OccursAt(sql, i, keyword)
        /\ WordBoundary(sql, i - 1)
        /\ WordBoundary(sql, i + Len(keyword) - 1)

\* ScanStep with the backslash taken as an escape inside strings only
ScanStepEscapeInString(s, st) ==
    LET char == s[st.i]
    IN  IF st.escapeNext
        THEN [st EXCEPT !.escapeNext = FALSE, !.i = @ + 1]
        ELSE IF char = "\\" /\ st.inString
        THEN [st EXCEPT !.escapeNext = TRUE, !.i = @ + 1]
        ELSE IF char = "'"
        THEN [st EXCEPT !.inString = ~@, !.i = @ + 1]
        ELSE IF /\ ~st.inString
                /\ char = ";"
                /\ st.i < Len(s)
                /\ TrimSpace(SubSeq(s, st.i + 1, Len(s))) # <<>>
        THEN [st EXCEPT !.err = TRUE]
        ELSE [st EXCEPT !.i = @ + 1]

\* One iteration of the loop of validateMultipleStatements over v.query.
\* st.i is the position read; st.err is set when the loop returns the error.
ScanStep(s, st) ==
    LET char == s[st.i]
    IN  IF st.escapeNext
        THEN [st EXCEPT !.escapeNext = FALSE, !.i = @ + 1]
        ELSE IF char = "\\"
        THEN [st EXCEPT !.escapeNext = TRUE, !.i = @ + 1]
        ELSE IF char = "'"
        THEN [st EXCEPT !.inString = ~@, !.i = @ + 1]
        ELSE IF /\ ~st.inString
                /\ char = ";"
                /\ st.i < Len(s)
                /\ TrimSpace(SubSeq(s, st.i + 1, Len(s))) # <<>>
        THEN [st EXCEPT !.err = TRUE]
        ELSE [st EXCEPT !.i = @ + 1]

ScanStart == [i |-> 1, inString |-> FALSE, escapeNext |-> FALSE, err |-> FALSE]

ScanDone(s, st) == st.err \/ st.i > Len(s)

RECURSIVE ScanLoop(_, _)
ScanLoop(s, st) ==
    IF ScanDone(s, st) THEN st ELSE ScanLoop(s, ScanStep(s, st))

\* validateMultipleStatements() != nil
validateMultipleStatements(q) == ScanLoop(q, ScanStart).err

\* reSelectInto: SELECT\s+.*\s+INTO\s+
reSelectInto(s, i) ==
    /\ OccursAt(s, i, <<"S","E","L","E","C","T">>)
    /\ \E k \in (i + 8)..Len(s) :
          /\ OccursAt(s, k, <<"I","N","T","O">>)
          /\ k + 4 <= Len(s)
          /\ IsReSpace(s[k + 4])
          /\ \E a \in (i + 6)..(k - 2) : \E b \in a..(k - 2) :
                /\ \A x \in (i + 6)..a : IsReSpace(s[x])
                /\ \A x \in (a + 1)..b : s[x] # "\n"
                /\ \A x \in (b + 1)..(k - 1) : IsReSpace(s[x])

\* validateNoIntoClause(sql) != nil
validateNoIntoClause(sql) == \E i \in 1..Len(sql) : reSelectInto(sql, i)

\* validateUnionUsage(sql) != nil
validateUnionUsage(sql) == Count(sql, <<"U","N","I","O","N">>) > MaxUnionCount

\* 0X[0-9A-F]+
reHexPattern(s, i) ==
    IF OccursAt(s, i, <<"0","X">>) /\ i + 2 <= Len(s) /\ IsHexDigit(s[i + 2])
    THEN NextIndex(s, i + 3, LAMBDA t, j : ~IsHexDigit(t[j])) - 1
    ELSE 0

\* (CHAR|NCHAR)\s*\(
reCharNCharPattern(s, i) ==
    LET after == IF OccursAt(s, i, <<"C","H","A","R">>) THEN i + 4
                 ELSE IF OccursAt(s, i, <<"N","C","H","A","R">>) THEN i + 5
                 ELSE 0
        p == NextIndex(s, after, LAMBDA t, j : ~IsReSpace(t[j]))
    IN  IF after > 0 /\ p <= Len(s) /\ s[p] = "(" THEN p ELSE 0

\* validateEncoding: a suspicious control character in v.query
SuspiciousControl(q) == \E i \in 1..Len(q) : IsSuspiciousControl(q[i])

\* validateEncoding: too many hexadecimal literals in v.normalized
ExcessiveHex(n) ==
    /\ Contains(n, <<"0","X">>)
    /\ CountMatchesFrom(reHexPattern, n, 1, 0) > MaxHexEncodingCount

\* validateEncoding: too many CHAR( / NCHAR( in v.normalized
ExcessiveChar(n) ==
    CountMatchesFrom(reCharNCharPattern, n, 1, 0) > MaxCharFunctionCount

\* One iteration of the loop of validateParenthesesDepth over v.query.
ParenStep(s, st) ==
    LET char == s[st.i]
    IN  IF char = "("
        THEN [i |-> st.i + 1,
              depth |-> st.depth + 1,
              maxDepth |-> IF st.depth + 1 > st.maxDepth
                           THEN st.depth + 1 ELSE st.maxDepth]
        ELSE IF char = ")"
        THEN [st EXCEPT !.depth = @ - 1, !.i = @ + 1]
        ELSE [st EXCEPT !.i = @ + 1]

RECURSIVE ParenLoop(_, _)
ParenLoop(s, st) ==
    IF st.i > Len(s) THEN st ELSE ParenLoop(s, ParenStep(s, st))

ParenScan(q) == ParenLoop(q, [i |-> 1, depth |-> 0, maxDepth |-> 0])

\* validateParenthesesDepth: depth != 0
UnbalancedParentheses(q) == ParenScan(q).depth # 0

\* ExcessiveNesting with >= where the code has >
ExcessiveNestingOffByOne(q) == ParenScan(q).maxDepth >= MaxParenthesesDepth

\* validateParenthesesDepth: maxDepth > MaxParenthesesDepth
ExcessiveNesting(q) == ParenScan(q).maxDepth > MaxParenthesesDepth

\* 1. strings.TrimSpace(v.query) == ""
EmptyQuery(q) == TrimSpace(q) = <<>>

\* QueryTooLong with the limit one too high
QueryTooLongOffByOne(q) == Len(q) > MaxQueryLength + 1

\* 2. len(v.query) > MaxQueryLength
QueryTooLong(q) == Len(q) > MaxQueryLength

\* NotReadOnly with strings.Contains where the code has strings.HasPrefix
NotReadOnlyContains(n) ==
    /\ ~Contains(n, <<"S","E","L","E","C","T">>)
    /\ ~Contains(n, <<"W","I","T","H">>)

\* 3. neither prefix SELECT nor prefix WITH
NotReadOnly(n) ==
    /\ ~HasPrefix(n, <<"S","E","L","E","C","T">>)
    /\ ~HasPrefix(n, <<"W","I","T","H">>)

\* 15. strings.Count(sqlWithoutLiterals, ";") > 0
StackedQueries(sql) == Count(sql, <<";">>) > 0

\* 19. strings.Count(sqlWithoutLiterals, "SELECT") > MaxSubqueryCount
TooManySubqueries(sql) ==
    Count(sql, <<"S","E","L","E","C","T">>) > MaxSubqueryCount

\* The checks of Validate in the order the code makes them, each with the
\* error it returns.
Rules == <<
    [kind |-> "empty", arg |-> <<>>, err |-> "empty query"],
    [kind |-> "toolong", arg |-> <<>>, err |-> "query too long (maximum 10000 characters)"],
    [kind |-> "prefix", arg |-> <<>>, err |-> "Only SELECT or WITH queries are allowed"],
    [kind |-> "keyword", arg |-> <<"I","N","S","E","R","T">>, err |-> "command not allowed: INSERT"],
    [kind |-> "keyword", arg |-> <<"U","P","D","A","T","E">>, err |-> "command not allowed: UPDATE"],
    [kind |-> "keyword", arg |-> <<"D","E","L","E","T","E">>, err |-> "command not allowed: DELETE"],
    [kind |-> "keyword", arg |-> <<"T","R","U","N","C","A","T","E">>, err |-> "command not allowed: TRUNCATE"],
    [kind |-> "keyword", arg |-> <<"M","E","R","G","E">>, err |-> "command not allowed: MERGE"],
    [kind |-> "keyword", arg |-> <<"D","R","O","P">>, err |-> "command not allowed: DROP"],
    [kind |-> "keyword", arg |-> <<"C","R","E","A","T","E">>, err |-> "command not allowed: CREATE"],
    [kind |-> "keyword", arg |-> <<"A","L","T","E","R">>, err |-> "command not allowed: ALTER"],
    [kind |-> "keyword", arg |-> <<"R","E","N","A","M","E">>, err |-> "command not allowed: RENAME"],
    [kind |-> "keyword", arg |-> <<"E","X","E","C">>, err |-> "command not allowed: EXEC"],
    [kind |-> "keyword", arg |-> <<"E","X","E","C","U","T","E">>, err |-> "command not allowed: EXECUTE"],
    [kind |-> "keyword", arg |-> <<"S","P","_","E","X","E","C","U","T","E","S","Q","L">>, err |-> "command not allowed: SP_EXECUTESQL"],
    [kind |-> "keyword", arg |-> <<"X","P","_","C","M","D","S","H","E","L","L">>, err |-> "command not allowed: XP_CMDSHELL"],
    [kind |-> "substring", arg |-> <<"B","E","G","I","N"," ","T","R","A","N","S","A","C","T","I","O","N">>, err |-> "Transaction commands are not allowed: BEGIN TRANSACTION"],
    [kind |-> "substring", arg |-> <<"B","E","G","I","N"," ","T","R","A","N">>, err |-> "Transaction commands are not allowed: BEGIN TRAN"],
    [kind |-> "substring", arg |-> <<"C","O","M","M","I","T">>, err |-> "Transaction commands are not allowed: COMMIT"],
    [kind |-> "substring", arg |-> <<"R","O","L","L","B","A","C","K">>, err |-> "Transaction commands are not allowed: ROLLBACK"],
    [kind |-> "substring", arg |-> <<"S","A","V","E"," ","T","R","A","N","S","A","C","T","I","O","N">>, err |-> "Transaction commands are not allowed: SAVE TRANSACTION"],
    [kind |-> "keyword", arg |-> <<"B","A","C","K","U","P">>, err |-> "command not allowed: BACKUP"],
    [kind |-> "keyword", arg |-> <<"R","E","S","T","O","R","E">>, err |-> "command not allowed: RESTORE"],
    [kind |-> "keyword", arg |-> <<"D","U","M","P">>, err |-> "command not allowed: DUMP"],
    [kind |-> "keyword", arg |-> <<"S","H","U","T","D","O","W","N">>, err |-> "administrative command not allowed: SHUTDOWN"],
    [kind |-> "keyword", arg |-> <<"R","E","C","O","N","F","I","G","U","R","E">>, err |-> "administrative command not allowed: RECONFIGURE"],
    [kind |-> "keyword", arg |-> <<"D","B","C","C">>, err |-> "administrative command not allowed: DBCC"],
    [kind |-> "keyword", arg |-> <<"K","I","L","L">>, err |-> "administrative command not allowed: KILL"],
    [kind |-> "keyword", arg |-> <<"G","R","A","N","T">>, err |-> "security command not allowed: GRANT"],
    [kind |-> "keyword", arg |-> <<"R","E","V","O","K","E">>, err |-> "security command not allowed: REVOKE"],
    [kind |-> "keyword", arg |-> <<"D","E","N","Y">>, err |-> "security command not allowed: DENY"],
    [kind |-> "substring", arg |-> <<"X","P","_">>, err |-> "dangerous function not permitted: XP_"],
    [kind |-> "substring", arg |-> <<"S","P","_","C","O","N","F","I","G","U","R","E">>, err |-> "dangerous function not permitted: SP_CONFIGURE"],
    [kind |-> "substring", arg |-> <<"S","P","_","A","D","D","S","R","V","R","O","L","E","M","E","M","B","E","R">>, err |-> "dangerous function not permitted: SP_ADDSRVROLEMEMBER"],
    [kind |-> "substring", arg |-> <<"S","P","_","A","D","D","L","O","G","I","N">>, err |-> "dangerous function not permitted: SP_ADDLOGIN"],
    [kind |-> "substring", arg |-> <<"O","P","E","N","R","O","W","S","E","T">>, err |-> "dangerous function not permitted: OPENROWSET"],
    [kind |-> "substring", arg |-> <<"O","P","E","N","D","A","T","A","S","O","U","R","C","E">>, err |-> "dangerous function not permitted: OPENDATASOURCE"],
    [kind |-> "substring", arg |-> <<"O","P","E","N","Q","U","E","R","Y">>, err |-> "dangerous function not permitted: OPENQUERY"],
    [kind |-> "substring", arg |-> <<"B","U","L","K"," ","I","N","S","E","R","T">>, err |-> "dangerous function not permitted: BULK INSERT"],
    [kind |-> "substring", arg |-> <<"B","C","P">>, err |-> "dangerous function not permitted: BCP"],
    [kind |-> "statements", arg |-> <<>>, err |-> "multiple commands are not allowed"],
    [kind |-> "into", arg |-> <<>>, err |-> "SELECT INTO is not allowed"],
    [kind |-> "semicolon", arg |-> <<>>, err |-> "Multiple commands are not allowed"],
    [kind |-> "union", arg |-> <<>>, err |-> "too many UNION clauses (maximum 5)"],
    [kind |-> "control", arg |-> <<>>, err |-> "suspicious control character detected"],
    [kind |-> "hex", arg |-> <<>>, err |-> "excessive use of hexadecimal encoding"],
    [kind |-> "char", arg |-> <<>>, err |-> "excessive use of CHAR/NCHAR (possible obfuscation)"],
    [kind |-> "keyword", arg |-> <<"W","A","I","T","F","O","R">>, err |-> "time function not allowed: WAITFOR"],
    [kind |-> "keyword", arg |-> <<"D","E","L","A","Y">>, err |-> "time function not allowed: DELAY"],
    [kind |-> "keyword", arg |-> <<"S","L","E","E","P">>, err |-> "time function not allowed: SLEEP"],
    [kind |-> "keyword", arg |-> <<"B","E","N","C","H","M","A","R","K">>, err |-> "time function not allowed: BENCHMARK"],
    [kind |-> "subqueries", arg |-> <<>>, err |-> "too many subqueries (maximum 10)"],
    [kind |-> "unbalanced", arg |-> <<>>, err |-> "unbalanced parentheses"],
    [kind |-> "depth", arg |-> <<>>, err |-> "parenthesis depth too large (maximum 20)"]
>>

NumRules == Len(Rules)

\* Whether check r returns its error, for v.query = q, v.normalized = n and
\* sqlWithoutLiterals = m.
RuleFails(r, q, n, m) ==
    CASE r.kind = "empty" -> EmptyQuery(q)
      [] r.kind = "toolong" -> QueryTooLong(q)
      [] r.kind = "prefix" -> NotReadOnly(n)
      [] r.kind = "keyword" -> containsKeyword(m, r.arg)
      [] r.kind = "substring" -> Contains(m, r.arg)
      [] r.kind = "statements" -> validateMultipleStatements(q)
      [] r.kind = "into" -> validateNoIntoClause(m)
      [] r.kind = "semicolon" -> StackedQueries(m)
      [] r.kind = "union" -> validateUnionUsage(m)
      [] r.kind = "control" -> SuspiciousControl(q)
      [] r.kind = "hex" -> ExcessiveHex(n)
      [] r.kind = "char" -> ExcessiveChar(n)
      [] r.kind = "subqueries" -> TooManySubqueries(m)
      [] r.kind = "unbalanced" -> UnbalancedParentheses(q)
      [] r.kind = "depth" -> ExcessiveNesting(q)

\* The checks made before "4. Removing literals for command parsing"
BeforeMasking(r) == r.kind \in {"empty", "toolong", "prefix"}

\* The index of the first check from j on that fails, NumRules + 1 for none.
RECURSIVE FirstFailing(_, _, _, _)
FirstFailing(j, q, n, m) ==
    IF j > NumRules THEN j
    ELSE IF RuleFails(Rules[j], q, n, m) THEN j
    ELSE FirstFailing(j + 1, q, n, m)

\* SQLValidator.Validate: the error returned ("nil" for none), and
\* sqlWithoutLiterals when the code got to compute it.
Validate(q, n) ==
    LET m == removeStringLiterals(n)
        j == FirstFailing(1, q, n, m)
    IN  [err |-> IF j > NumRules THEN "nil" ELSE Rules[j].err,
         masked |-> IF j <= NumRules /\ BeforeMasking(Rules[j]) THEN <<>> ELSE m]

(***************************************************************************)
(* The inputs: queries put together from at most MaxFrags fragments.       *)
(***************************************************************************)
MaxFrags == 4

RECURSIVE Flatten(_)
Flatten(ss) == IF ss = <<>> THEN <<>> ELSE Head(ss) \o Flatten(Tail(ss))

\* every concatenation of at most n fragments of F
Concatenations(F, n) ==
    {Flatten(ss) : ss \in UNION {[1..k -> F] : k \in 0..n}}

Fragments ==
    { <<"s","e","l","e","c","t">>, <<"W","I","T","H">>, <<"D","R","O","P">>,
      <<" ">>, <<";">>, <<"x">>, <<"\"","'","\"">> }

Queries == Concatenations(Fragments, MaxFrags)

(***************************************************************************)
(* One request: NewSQLValidator(query), then Validate().                   *)
(***************************************************************************)
Init == /\ query = <<>>
        /\ normalized = <<>>
        /\ sqlWithoutLiterals = <<>>
        /\ outcome = "none"
        /\ pc = "new"
        /\ scan = ScanStart
        /\ keywordPatterns = {}
        /\ callers = [p \in {} |-> 0]
        /\ crashed = FALSE

NewSQLValidator(q) ==
    /\ pc = "new"
    /\ query' = q
    /\ normalized' = normalizeSQL(q)
    /\ pc' = "validate"
    /\ UNCHANGED <<sqlWithoutLiterals, outcome, scan, keywordPatterns, callers, crashed>>

ValidateCall ==
    /\ pc = "validate"
    /\ LET r == Validate(query, normalized)
       IN  /\ outcome' = r.err
           /\ sqlWithoutLiterals' = r.masked
    /\ pc' = "done"
    /\ UNCHANGED <<query, normalized, scan, keywordPatterns, callers, crashed>>

Next ==
    \/ pc = "new" /\ \E q \in Queries : NewSQLValidator(q)
    \/ ValidateCall

Spec == Init /\ [][Next]_vars

(***************************************************************************)
(* The same request on queries that hold comments.                         *)
(***************************************************************************)
CommentFragments ==
    { <<"s","e","l","e","c","t">>, <<" ">>, <<"x">>, <<"\n">>,
      <<"-","-">>, <<"/","*">>, <<"*","/">> }

CommentQueries == Concatenations(CommentFragments, MaxFrags)

NextComments ==
    \/ pc = "new" /\ \E q \in CommentQueries : NewSQLValidator(q)
    \/ ValidateCall

SpecComments == Init /\ [][NextComments]_vars

(***************************************************************************)
(* The same request on queries about MaxQueryLength long: a short head     *)
(* padded with one character up to a length within LenSlack of the limit.  *)
(***************************************************************************)
LenSlack == 1

Repeat(c, n) == [i \in 1..n |-> c]

LongHeads ==
    { <<>>, <<"\t">>, <<"D","R","O","P"," ">>,
      <<"s","e","l","e","c","t"," ","D","R","O","P"," ">>,
      <<"w","i","t","h"," ","D","R","O","P"," ">> }

PadChars == {" ", "\n", "\t", "x"}

LongQueries ==
    { h \o Repeat(c, L - Len(h)) :
        h \in LongHeads, c \in PadChars,
        L \in (MaxQueryLength - LenSlack)..(MaxQueryLength + LenSlack) }

NextLong ==
    \/ pc = "new" /\ \E q \in LongQueries : NewSQLValidator(q)
    \/ ValidateCall

SpecLong == Init /\ [][NextLong]_vars

(***************************************************************************)
(* The same request on nested queries: SELECT, a opening parentheses, an   *)
(* inner part, one fewer to one more closing parentheses, and a tail, with *)
(* a up to NestSlack beyond MaxParenthesesDepth.                           *)
(***************************************************************************)
NestSlack == 1

MaxNest == MaxParenthesesDepth + NestSlack

InnerParts == { <<>>, <<"1">>, <<"'", "(", "'">>, <<"'", ")", "'">> }

Tails == { <<>>, <<"(", ")">> }

NestedQueries ==
    { <<"s","e","l","e","c","t">> \o Repeat("(", a) \o inner
                                \o Repeat(")", a + d) \o tail :
        a \in 1..MaxNest, d \in {-1, 0, 1}, inner \in InnerParts, tail \in Tails }

NextNested ==
    \/ pc = "new" /\ \E q \in NestedQueries : NewSQLValidator(q)
    \/ ValidateCall

SpecNested == Init /\ [][NextNested]_vars

(***************************************************************************)
(* validateMultipleStatements one character at a time, on every query of   *)
(* at most MaxScanLen characters of ScanChars.                             *)
(***************************************************************************)
MaxScanLen == 5

ScanChars == {"\\", "'", ";", " ", "x"}

ScanQueries == UNION {[1..k -> ScanChars] : k \in 0..MaxScanLen}

\* v.query is set and the loop starts: inString, escapeNext := false
ScanBegin(q) ==
    /\ pc = "new"
    /\ query' = q
    /\ scan' = ScanStart
    /\ pc' = "scanning"
    /\ UNCHANGED <<normalized, sqlWithoutLiterals, outcome, keywordPatterns, callers, crashed>>

\* the loop reads the next character
ScanChar ==
    /\ pc = "scanning"
    /\ ~ScanDone(query, scan)
    /\ scan' = ScanStep(query, scan)
    /\ UNCHANGED <<query, normalized, sqlWithoutLiterals, outcome, pc, keywordPatterns, callers, crashed>>

\* validateMultipleStatements returns: the error from inside the loop, or nil
ScanReturn ==
    /\ pc = "scanning"
    /\ ScanDone(query, scan)
    /\ outcome' = IF scan.err THEN "multiple commands are not allowed" ELSE "nil"
    /\ pc' = "returned"
    /\ UNCHANGED <<query, normalized, sqlWithoutLiterals, scan, keywordPatterns, callers, crashed>>

NextScan ==
    \/ pc = "new" /\ \E q \in ScanQueries : ScanBegin(q)
    \/ ScanChar
    \/ ScanReturn

SpecScan == Init /\ [][NextScan]_vars

(***************************************************************************)
(* Queries for the parenthesis check: select followed by at most           *)
(* MaxParenLen characters, each a parenthesis or a letter.                 *)
(***************************************************************************)
MaxParenLen == 4

ParenChars == {"(", ")", "x"}

ParenQueries ==
    { <<"s","e","l","e","c","t"," ">> \o body :
        body \in UNION {[1..k -> ParenChars] : k \in 0..MaxParenLen} }

NextParens ==
    \/ pc = "new" /\ \E q \in ParenQueries : NewSQLValidator(q)
    \/ ValidateCall

SpecParens == Init /\ [][NextParens]_vars

(***************************************************************************)
(* Concurrent requests.  Each caller runs NewSQLValidator and Validate on  *)
(* its own query; what the callers share is the map keywordPatterns, which *)
(* containsKeyword reads and, on a miss, writes.  A map access takes time: *)
(* a caller is in pc "lookup" while it reads the map and in pc "store"     *)
(* while it writes it.  The checks between two map accesses touch nothing  *)
(* shared and are taken in one step with the access before them.           *)
(***************************************************************************)
NumCallers == 2

Callers == 1..NumCallers

\* Queries that Validate rejects at its second, third and sixth
\* containsKeyword call, and one it rejects before the first.
RaceQueries ==
    { <<"s","e","l","e","c","t"," ","U","P","D","A","T","E">>,
      <<"s","e","l","e","c","t"," ","D","E","L","E","T","E">>,
      <<"s","e","l","e","c","t"," ","D","R","O","P">>,
      <<"D","R","O","P">> }

\* From check j on: the checks up to the next containsKeyword call (pc
\* "lookup", its map read begun) or up to the return of Validate (pc "done").
RECURSIVE RunToLookup(_, _, _, _)
RunToLookup(j, q, n, m) ==
    IF j > NumRules THEN [pc |-> "done", rule |-> j, err |-> "nil"]
    ELSE IF Rules[j].kind = "keyword" THEN [pc |-> "lookup", rule |-> j, err |-> "none"]
    ELSE IF RuleFails(Rules[j], q, n, m) THEN [pc |-> "done", rule |-> j, err |-> Rules[j].err]
    ELSE RunToLookup(j + 1, q, n, m)

\* pattern.MatchString(sql) of the containsKeyword call of check c.rule, and
\* what follows it
AfterMatch(c) ==
    LET m == removeStringLiterals(c.normalized)
    IN  IF containsKeyword(m, Rules[c.rule].arg)
        THEN [pc |-> "done", rule |-> c.rule, err |-> Rules[c.rule].err]
        ELSE RunToLookup(c.rule + 1, c.query, c.normalized, m)

Moved(c, r) == [c EXCEPT !.pc = r.pc, !.rule = r.rule, !.err = r.err]

Reading(p) == callers[p].pc = "lookup"
Writing(p) == callers[p].pc = "store"

\* caller p is in a map access while another caller writes the map, or
\* writes it while another caller is in a map access
Racing(p) ==
    \E r \in Callers \ {p} :
        \/ Writing(r) /\ (Reading(p) \/ Writing(p))
        \/ Writing(p) /\ Reading(r)

IdleCaller == [pc |-> "idle", query |-> <<>>, normalized |-> <<>>, rule |-> 0, err |-> "none"]

\* var keywordPatterns = make(map[string]*regexp.Regexp): empty at start
InitRace ==
    /\ query = <<>>
    /\ normalized = <<>>
    /\ sqlWithoutLiterals = <<>>
    /\ outcome = "none"
    /\ pc = "new"
    /\ scan = ScanStart
    /\ keywordPatterns = {}
    /\ callers = [p \in Callers |-> IdleCaller]
    /\ crashed = FALSE

\* NewSQLValidator(q).Validate() up to its first map access
Call(p, q) ==
    /\ ~crashed
    /\ callers[p].pc = "idle"
    /\ LET n == normalizeSQL(q)
           c == [pc |-> "idle", query |-> q, normalized |-> n, rule |-> 0, err |-> "none"]
       IN  callers' = [callers EXCEPT
                         ![p] = Moved(c, RunToLookup(1, q, n, removeStringLiterals(n)))]
    /\ UNCHANGED <<query, normalized, sqlWithoutLiterals, outcome, pc, scan, keywordPatterns, crashed>>

\* pattern, exists := keywordPatterns[keyword] completes.  With no
\* concurrent write it finds the pattern or not; on a hit the pattern is
\* matched, on a miss it is compiled and the write of the map begins.
LookupDone(p) ==
    /\ ~crashed
    /\ Reading(p)
    /\ ~Racing(p)
    /\ callers' = [callers EXCEPT ![p] =
                     IF Rules[@.rule].arg \in keywordPatterns
                     THEN Moved(@, AfterMatch(@))
                     ELSE [@ EXCEPT !.pc = "store"]]
    /\ UNCHANGED <<query, normalized, sqlWithoutLiterals, outcome, pc, scan, keywordPatterns, crashed>>

\* The same read while another caller writes the map: a data race, so the
\* read may find the pattern or not, whatever the map holds.
LookupRacing(p) ==
    /\ ~crashed
    /\ Reading(p)
    /\ Racing(p)
    /\ \E exists \in BOOLEAN :
          callers' = [callers EXCEPT ![p] =
                        IF exists THEN Moved(@, AfterMatch(@))
                        ELSE [@ EXCEPT !.pc = "store"]]
    /\ UNCHANGED <<query, normalized, sqlWithoutLiterals, outcome, pc, scan, keywordPatterns, crashed>>

\* keywordPatterns[keyword] = pattern completes, then the pattern is matched
StoreDone(p) ==
    /\ ~crashed
    /\ Writing(p)
    /\ ~Racing(p)
    /\ keywordPatterns' = keywordPatterns \cup {Rules[callers[p].rule].arg}
    /\ callers' = [callers EXCEPT ![p] = Moved(@, AfterMatch(@))]
    /\ UNCHANGED <<query, normalized, sqlWithoutLiterals, outcome, pc, scan, crashed>>

\* The same write during another caller's map access: a data race, so the
\* entry may be stored or lost.
StoreRacing(p) ==
    /\ ~crashed
    /\ Writing(p)
    /\ Racing(p)
    /\ \E stored \in BOOLEAN :
          keywordPatterns' = IF stored
                             THEN keywordPatterns \cup {Rules[callers[p].rule].arg}
                             ELSE keywordPatterns
    /\ callers' = [callers EXCEPT ![p] = Moved(@, AfterMatch(@))]
    /\ UNCHANGED <<query, normalized, sqlWithoutLiterals, outcome, pc, scan, crashed>>

\* The runtime detects the concurrent map access and ends the process
\* ("fatal error: concurrent map read and map write", "concurrent map writes").
Fatal ==
    /\ ~crashed
    /\ \E p \in Callers : Racing(p)
    /\ crashed' = TRUE
    /\ UNCHANGED <<query, normalized, sqlWithoutLiterals, outcome, pc, scan, keywordPatterns, callers>>

NextRace ==
    \/ \E p \in Callers, q \in RaceQueries : Call(p, q)
    \/ \E p \in Callers : LookupDone(p)
    \/ \E p \in Callers : LookupRacing(p)
    \/ \E p \in Callers : StoreDone(p)
    \/ \E p \in Callers : StoreRacing(p)
    \/ Fatal

SpecRace == InitRace /\ [][NextRace]_vars

(***************************************************************************)
(* What the claims speak of.                                               *)
(***************************************************************************)
ErrEmpty == "empty query"
ErrTooLong == "query too long (maximum 10000 characters)"
ErrNotReadOnly == "Only SELECT or WITH queries are allowed"
ErrNesting == "parenthesis depth too large (maximum 20)"
Accepted == "nil"

\* s starts with w
StartsWith(s, w) == Len(s) >= Len(w) /\ SubSeq(s, 1, Len(w)) = w

SelectWord == <<"S","E","L","E","C","T">>
WithWord == <<"W","I","T","H">>

\* nothing but whitespace
Blank(q) == \A i \in 1..Len(q) : IsSpace(q[i])

\* A literal of any of the three kinds starting at i: '...', "..." or [...]
AnyLiteral(s, i) ==
    IF s[i] = "'" THEN Delimited(s, i, "'", "'")
    ELSE IF s[i] = "\"" THEN Delimited(s, i, "\"", "\"")
    ELSE IF s[i] = "[" THEN Delimited(s, i, "[", "]")
    ELSE 0

\* The literals of s found by one left-to-right, leftmost-first,
\* non-overlapping pass over the three kinds, as <<start, end>> pairs.
RECURSIVE LiteralSpansFrom(_, _, _)
LiteralSpansFrom(s, from, acc) ==
    LET start == NextIndex(s, from, LAMBDA t, j : AnyLiteral(t, j) > 0)
    IN  IF start > Len(s) THEN acc
        ELSE LiteralSpansFrom(s, AnyLiteral(s, start) + 1,
                              acc \cup {<<start, AnyLiteral(s, start)>>})

LiteralSpans(s) == LiteralSpansFrom(s, 1, {})

InLiteral(s, i) == \E sp \in LiteralSpans(s) : sp[1] <= i /\ i <= sp[2]

\* The same pass, emptying each literal and keeping its delimiters.
KeepDelimiters(s, start, end) == <<s[start], s[end]>>
OnePassMask(s) == ReplaceAllString(AnyLiteral, KeepDelimiters, s)

\* a ; outside every literal with a non-whitespace character after it
StackedSemicolon(q) ==
    \E i \in 1..Len(q) :
        /\ q[i] = ";"
        /\ ~InLiteral(q, i)
        /\ \E j \in (i + 1)..Len(q) : ~IsSpace(q[j])

\* Validate got as far as removing the literals
Masked == pc = "done" /\ outcome \notin {ErrEmpty, ErrTooLong, ErrNotReadOnly}

\* C2: a query with a ; outside every literal that is followed by a
\* non-whitespace character is never accepted.
C2_StackedQueryRejected ==
    (pc = "done" /\ StackedSemicolon(query)) => outcome # Accepted

\* C3: appending one ; (and then only whitespace) to a query that Validate
\* accepts gives a query that Validate accepts.
C3_TrailingSemicolonAccepted ==
    pc = "done" =>
        \A k \in 1..Len(query) :
            ( /\ query[k] = ";"
              /\ \A j \in (k + 1)..Len(query) : IsSpace(query[j])
              /\ Validate(SubSeq(query, 1, k - 1),
                          normalizeSQL(SubSeq(query, 1, k - 1))).err = Accepted )
            => outcome = Accepted

\* C4: sqlWithoutLiterals is the normalized query with every literal of the
\* one left-to-right pass over the three delimiter kinds emptied.
C4_MaskingIsOnePass ==
    Masked => sqlWithoutLiterals = OnePassMask(normalized)

\* C7 as stated: a query whose normalized form starts with neither SELECT
\* nor WITH is rejected as not read-only.
C7_AlwaysNotReadOnly ==
    ( /\ pc = "done"
      /\ ~StartsWith(normalized, SelectWord)
      /\ ~StartsWith(normalized, WithWord) )
    => outcome = ErrNotReadOnly

\* C7 amended: a query that is not blank, is at most MaxQueryLength long, and
\* whose normalized form starts with neither SELECT nor WITH is rejected as
\* not read-only, whatever else it contains.
C7_NotReadOnly ==
    ( /\ pc = "done"
      /\ ~Blank(query)
      /\ Len(query) <= MaxQueryLength
      /\ ~StartsWith(normalized, SelectWord)
      /\ ~StartsWith(normalized, WithWord) )
    => outcome = ErrNotReadOnly

\* a query that holds SELECT and a denylisted command, and starts with neither
\* SELECT nor WITH, has been rejected as not read-only
C7_Witness ==
    /\ pc = "done"
    /\ ~Blank(query)
    /\ ~StartsWith(normalized, SelectWord)
    /\ ~StartsWith(normalized, WithWord)
    /\ Contains(normalized, SelectWord)
    /\ Contains(normalized, <<"D","R","O","P">>)
    /\ outcome = ErrNotReadOnly

\* /\*.*?\*/ with a "." that also matches a newline: the text from a /* to
\* the next */, whatever lies between
BlockCommentSpanningLines(s, i) ==
    IF OccursAt(s, i, <<"/", "*">>)
    THEN LET c == NextIndex(s, i + 2, LAMBDA t, j : OccursAt(t, j, <<"*", "/">>))
         IN  IF c <= Len(s) THEN c + 1 ELSE 0
    ELSE 0

\* the steps of normalizeSQL with block comments removed across lines
NormalizeSpanningLines(sql) ==
    LET s1 == ReplaceAllString(reLineComments, Space, sql)
        s2 == ReplaceAllString(BlockCommentSpanningLines, Space, s1)
        s3 == ReplaceAllString(reMultipleSpaces, Space, s2)
        s4 == ReplaceAllString(reParensAndCommas, Group1, s3)
    IN  TrimSpace(ToUpper(s4))

\* C5: normalizeSQL is idempotent.
C5_NormalizeIdempotent ==
    pc # "new" => normalizeSQL(normalized) = normalized

\* C6: normalizeSQL removes the text from each /* to the next */ even when
\* newlines lie between them.
C6_BlockCommentsSpanLines ==
    pc # "new" => normalized = NormalizeSpanningLines(query)

\* C8 as stated: every query longer than MaxQueryLength is rejected as too
\* long, whatever it contains.
C8_AlwaysTooLong ==
    (pc = "done" /\ Len(query) > MaxQueryLength) => outcome = ErrTooLong

\* C8 amended: a query longer than MaxQueryLength is rejected as too long
\* unless it is blank, and then it is rejected as empty.
C8_TooLongUnlessBlank ==
    (pc = "done" /\ Len(query) > MaxQueryLength)
    => outcome = IF Blank(query) THEN ErrEmpty ELSE ErrTooLong

\* an over-long query that starts with SELECT has been rejected as too long
C8_Witness ==
    /\ pc = "done"
    /\ Len(query) > MaxQueryLength
    /\ StartsWith(normalized, SelectWord)
    /\ outcome = ErrTooLong

\* the number of ( less the number of ) in the first i characters of q
DepthAfter(q, i) ==
    Cardinality({j \in 1..i : q[j] = "("}) - Cardinality({j \in 1..i : q[j] = ")"})

\* the greatest depth over the prefixes of q
GreatestDepth(q) ==
    CHOOSE d \in {DepthAfter(q, i) : i \in 0..Len(q)} :
        \A i \in 0..Len(q) : DepthAfter(q, i) <= d

\* no check of Validate other than the nesting threshold fails
NoOtherRuleFails ==
    \A j \in 1..NumRules :
        Rules[j].kind # "depth"
        => ~RuleFails(Rules[j], query, normalized, removeStringLiterals(normalized))

\* C9: a query with balanced parentheses that violates no other rule is
\* rejected for its nesting exactly when its greatest parenthesis depth
\* exceeds MaxParenthesesDepth, and is accepted otherwise.
C9_NestingBoundary ==
    (pc = "done" /\ DepthAfter(query, Len(query)) = 0 /\ NoOtherRuleFails)
    => outcome = IF GreatestDepth(query) > MaxParenthesesDepth
                 THEN ErrNesting ELSE Accepted

\* a balanced query of depth MaxParenthesesDepth + 1 that violates no other
\* rule has been rejected for its nesting
C9_Witness ==
    /\ pc = "done"
    /\ DepthAfter(query, Len(query)) = 0
    /\ NoOtherRuleFails
    /\ GreatestDepth(query) = MaxParenthesesDepth + 1
    /\ outcome = ErrNesting

ErrMultiple == "multiple commands are not allowed"

\* The three-state machine of the claim.  It is in state "Normal",
\* "InString" or "EscapePending", and in EscapePending remembers the state it
\* came from.
MachineStart == [state |-> "Normal", from |-> "Normal"]

MachineStep(m, char) ==
    IF m.state = "EscapePending" THEN [state |-> m.from, from |-> m.from]
    ELSE IF char = "\\" THEN [state |-> "EscapePending", from |-> m.state]
    ELSE IF char = "'"
    THEN [state |-> IF m.state = "Normal" THEN "InString" ELSE "Normal",
          from |-> m.from]
    ELSE m

\* the machine's state before it reads position i of q
RECURSIVE MachineBefore(_, _)
MachineBefore(q, i) ==
    IF i <= 1 THEN MachineStart
    ELSE MachineStep(MachineBefore(q, i - 1), q[i - 1])

\* the machine's state that the loop variables stand for
MachineOf(st) ==
    IF st.escapeNext
    THEN [state |-> "EscapePending",
          from |-> IF st.inString THEN "InString" ELSE "Normal"]
    ELSE [state |-> IF st.inString THEN "InString" ELSE "Normal",
          from |-> MachineStart.from]

SameMachineState(a, b) ==
    /\ a.state = b.state
    /\ a.state = "EscapePending" => a.from = b.from

\* some ; is read in Normal state and a non-whitespace character follows it
NormalSemicolonFollowed(q) ==
    \E i \in 1..Len(q) :
        /\ q[i] = ";"
        /\ MachineBefore(q, i).state = "Normal"
        /\ \E j \in (i + 1)..Len(q) : ~IsSpace(q[j])

\* C10: the loop of validateMultipleStatements runs the three-state machine
\* {Normal, InString, EscapePending} over the raw query, and returns the
\* error exactly when some ; is read in Normal state with a non-whitespace
\* character after it.
C10_ScannerIsThreeStateMachine ==
    /\ (pc = "scanning" /\ ~scan.err)
       => SameMachineState(MachineOf(scan), MachineBefore(query, scan.i))
    /\ pc = "returned"
       => (outcome = ErrMultiple <=> NormalSemicolonFollowed(query))

\* the loop has skipped an escaped ; and has returned the error at a later ;
\* read in Normal state
C10_Witness ==
    /\ pc = "returned"
    /\ outcome = ErrMultiple
    /\ scan.err
    /\ \E i \in 1..(scan.i - 1) :
          query[i] = ";" /\ MachineBefore(query, i).state = "EscapePending"

\* C1: no state has one call writing the keyword-pattern table while
\* another call reads or writes it, and the runtime never ends the process
\* over a concurrent map access.
C1_NoRaceOnKeywordPatterns ==
    /\ ~crashed
    /\ \A p \in DOMAIN callers : \A r \in DOMAIN callers :
          p # r => ~(Writing(p) /\ (Reading(r) \/ Writing(r)))

\* no ) of q comes before its matching (
NeverNegative(q) == \A i \in 0..Len(q) : DepthAfter(q, i) >= 0

====
